---- MODULE Spec2Model ----
(***************************************************************************)
(* z.ai MCP server (src/index.js): startup, the ListTools / CallTool       *)
(* request handlers and the one outbound HTTP call of each invocation.     *)
(*                                                                         *)
(* JavaScript values are tagged records: [t |-> "undef"], [t |-> "null"],  *)
(* [t |-> "num", v |-> n], [t |-> "str", v |-> s], [t |-> "arr", v |-> a], *)
(* [t |-> "obj", v |-> <<key, value>> pairs in insertion order].           *)
(* A string is a sequence of text pieces: a piece is one character         *)
(* (QUOTE, BSLASH, NL, "a", ...) or a literal chunk of the source text     *)
(* ("Error executing ", "z.ai API error", ...).  Concatenation is \o and   *)
(* String.prototype.includes is contiguous-subsequence search.             *)
(* Fractional numbers are kept in tenths (7 stands for 0.7).               *)
(***************************************************************************)
EXTENDS Integers, Sequences, FiniteSets, TLC

\* ---------------------------------------------------------------- bounds
\* Longest string (in pieces) an upstream body or a failure cause carries.
MaxStrLen == 2
\* Longest conversationHistory array an invocation supplies.
MaxHist == 1
\* Invocations that may be in flight (awaiting fetch) at the same time.
MaxInFlight == 2

\* ---------------------------------------------------------------- values
QUOTE == "\""
BSLASH == "\\"
NL == "\n"

Undef == [t |-> "undef"]
Null == [t |-> "null"]
Num(n) == [t |-> "num", v |-> n]
Str(s) == [t |-> "str", v |-> s]
Arr(a) == [t |-> "arr", v |-> a]
Obj(pairs) == [t |-> "obj", v |-> pairs]

\* ToBoolean: the truthiness test behind `if (x)`, `x || d` and `x && y`.
Truthy(x) ==
    CASE x.t = "undef" -> FALSE
      [] x.t = "null" -> FALSE
      [] x.t = "num" -> x.v # 0
      [] x.t = "str" -> Len(x.v) > 0
      [] OTHER -> TRUE

\* `x || d`
OrElse(x, d) == IF Truthy(x) THEN x ELSE d

\* `x || d` written where `x ?? d` stands: 0 falls back too.
CoalesceFalsy(x, d) == IF Truthy(x) THEN x ELSE d

\* `x ?? d`
Coalesce(x, d) == IF x.t \in {"undef", "null"} THEN d ELSE x

\* Property read `o.key`; reading a property of undefined or null throws.
CanRead(o) == o.t \notin {"undef", "null"}

Get(o, key) ==
    CASE o.t = "obj" ->
            IF \E i \in 1..Len(o.v) : o.v[i][1] = key
            THEN o.v[CHOOSE i \in 1..Len(o.v) : o.v[i][1] = key][2]
            ELSE Undef
      [] o.t \in {"arr", "str"} /\ key = "length" -> Num(Len(o.v))
      [] o.t = "arr" /\ key = "0" /\ Len(o.v) > 0 -> o.v[1]
      [] o.t = "str" /\ key = "0" /\ Len(o.v) > 0 -> Str(<<o.v[1]>>)
      [] OTHER -> Undef

\* The message of the TypeError V8 raises for `o.key` on undefined / null.
TypeErrorMessage(o, key) ==
    <<"Cannot read properties of ", IF o.t = "null" THEN "null" ELSE "undefined",
      " (reading '", key, "')">>

\* String.prototype.includes
Includes(s, sub) ==
    \E i \in 0..(Len(s) - Len(sub)) :
        \A j \in 1..Len(sub) : s[i + j] = sub[j]

\* ------------------------------------------------------- JSON.stringify
\* The escape JSON.stringify applies to one character of a string.
EscapePiece(c) ==
    CASE c = QUOTE -> <<BSLASH, QUOTE>>
      [] c = BSLASH -> <<BSLASH, BSLASH>>
      [] c = NL -> <<BSLASH, "n">>
      [] OTHER -> <<c>>

RECURSIVE Escape(_)
Escape(s) == IF s = << >> THEN << >> ELSE EscapePiece(Head(s)) \o Escape(Tail(s))

\* JSON.stringify of a string: the escaped characters between two quotes.
Quoted(s) == <<QUOTE>> \o Escape(s) \o <<QUOTE>>

\* The indentation JSON.stringify(value, null, 2) writes at nesting depth d.
RECURSIVE Pad(_)
Pad(d) == IF d = 0 THEN << >> ELSE <<"  ">> \o Pad(d - 1)

\* Members JSON.stringify keeps: a property whose value is undefined is dropped.
Kept(pairs) == SelectSeq(pairs, LAMBDA p : p[2].t # "undef")

\* JSON.stringify(x, null, 2), at nesting depth d; x is not undefined.
RECURSIVE Stringify(_, _)
RECURSIVE JoinMembers(_, _)
RECURSIVE JoinItems(_, _)
JoinMembers(pairs, d) ==
    IF pairs = << >> THEN << >>
    ELSE Pad(d) \o Quoted(<<pairs[1][1]>>) \o <<": ">> \o Stringify(pairs[1][2], d)
         \o (IF Len(pairs) > 1 THEN <<",", NL>> ELSE << >>)
         \o JoinMembers(Tail(pairs), d)

JoinItems(items, d) ==
    IF items = << >> THEN << >>
    ELSE Pad(d)
         \o (IF items[1].t = "undef" THEN <<"null">> ELSE Stringify(items[1], d))
         \o (IF Len(items) > 1 THEN <<",", NL>> ELSE << >>)
         \o JoinItems(Tail(items), d)

Stringify(x, d) ==
    CASE x.t = "null" -> <<"null">>
      [] x.t = "num" -> <<ToString(x.v)>>
      [] x.t = "str" -> Quoted(x.v)
      [] x.t = "arr" ->
            IF x.v = << >> THEN <<"[]">>
            ELSE <<"[", NL>> \o JoinItems(x.v, d + 1) \o <<NL>> \o Pad(d) \o <<"]">>
      [] x.t = "obj" ->
            IF Kept(x.v) = << >> THEN <<"{}">>
            ELSE <<"{", NL>> \o JoinMembers(Kept(x.v), d + 1) \o <<NL>> \o Pad(d) \o <<"}">>

JSONStringify(x) == Stringify(x, 0)

\* ------------------------------------------------------------ completions
\* How a piece of code ends: it returns a value or throws an Error whose
\* .message is the given string.
Return(x) == [kind |-> "return", value |-> x]
Throw(msg) == [kind |-> "throw", message |-> msg]

\* ---------------------------------------------------------- configuration
DefaultMaxTokens == 4000
\* 0.7, in tenths
DefaultTemperature == 7
DefaultMaxResults == 10

\* process.env.ZAI_API_KEY: unset, set to the empty string, or set to a key.
ApiKeys == {Undef, Str(<< >>), Str(<<"sk-key">>)}

\* ZAI_CONFIG as the module builds it when the optional variables are unset.
LoadConfig(key) ==
    [apiKey |-> key,
     baseUrl |-> <<"https://api.z.ai">>,
     model |-> <<"claude-3-sonnet-20240229">>,
     maxTokens |-> Num(DefaultMaxTokens),
     temperature |-> Num(DefaultTemperature)]

\* validateConfig() testing `apiKey === undefined` instead of `!apiKey`.
validateConfigUndefinedOnly(cfg) ==
    IF cfg.apiKey.t = "undef"
    THEN Throw(<<"ZAI_API_KEY environment variable is required">>)
    ELSE Return(Undef)

\* validateConfig(): throws when the key is missing or empty.
validateConfig(cfg) ==
    IF ~Truthy(cfg.apiKey)
    THEN Throw(<<"ZAI_API_KEY environment variable is required">>)
    ELSE Return(Undef)

\* ------------------------------------------------------------ tool catalog
ToolNames == <<"zai_chat", "zai_search", "zai_summarize">>

\* A catalog whose zai_summarize schema lists no required field.
ToolCatalogLax ==
    << [name |-> "zai_chat", required |-> <<"message">>],
       [name |-> "zai_search", required |-> <<"query">>],
       [name |-> "zai_summarize", required |-> << >>] >>

\* The descriptors ListTools returns: name and the schema's required list.
ToolCatalog ==
    << [name |-> "zai_chat", required |-> <<"message">>],
       [name |-> "zai_search", required |-> <<"query">>],
       [name |-> "zai_summarize", required |-> <<"text">>] >>

\* --------------------------------------------------------- zaiApiRequest
ApiErrorMarker == <<"z.ai API error">>

\* The fetch(url, {...}) call of zaiApiRequest: one POST with a JSON body.
FetchCall(cfg, endpoint, data) ==
    [url |-> cfg.baseUrl \o endpoint,
     method |-> "POST",
     contentType |-> <<"application/json">>,
     authorization |-> <<"Bearer ">> \o cfg.apiKey.v,
     data |-> data]

\* response.ok
Ok(status) == status >= 200 /\ status <= 299

\* The try block reporting a non-2xx answer without reading its body.
ApiTryNoBody(url, out) ==
    CASE out.kind = "reject" -> Throw(out.message)
      [] out.kind = "response" /\ ~Ok(out.status) ->
            Throw(ApiErrorMarker \o <<" (", ToString(out.status), ")">>)
      [] out.kind = "response" /\ Ok(out.status) /\ ~out.isJson ->
            Throw(<<"invalid json response body at ">> \o url
                  \o <<" reason: ", "Unexpected token">>)
      [] OTHER -> Return(out.json)

\* The body of zaiApiRequest's try block once fetch has settled with `out`:
\* a rejection, a non-2xx response, a 2xx response whose body parses or not.
ApiTry(url, out) ==
    CASE out.kind = "reject" -> Throw(out.message)
      [] out.kind = "response" /\ ~Ok(out.status) ->
            Throw(ApiErrorMarker \o <<" (", ToString(out.status), "): ">> \o out.text)
      [] out.kind = "response" /\ Ok(out.status) /\ ~out.isJson ->
            Throw(<<"invalid json response body at ">> \o url
                  \o <<" reason: ", "Unexpected token">>)
      [] OTHER -> Return(out.json)

\* zaiApiRequest after the await: the catch block rethrows what it takes for
\* an API error and wraps everything else as a connection failure.
ApiCatch(c) ==
    IF c.kind = "throw" /\ ~Includes(c.message, ApiErrorMarker)
    THEN Throw(<<"Failed to connect to z.ai API: ">> \o c.message)
    ELSE c

zaiApiRequest(url, out) == ApiCatch(ApiTry(url, out))

\* ------------------------------------------------------ CallTool handler
\* `c.key` on the value of a completion: a throw passes through, a read of
\* undefined or null throws the TypeError.
Read(c, key) ==
    IF c.kind = "throw" THEN c
    ELSE IF CanRead(c.value) THEN Return(Get(c.value, key))
    ELSE Throw(TypeErrorMessage(c.value, key))

\* `x?.length` without the `|| 0`.
LengthNoDefault(x) == IF CanRead(x) THEN Get(x, "length") ELSE Undef

\* `x?.length || 0`
LengthOrZero(x) == OrElse(IF CanRead(x) THEN Get(x, "length") ELSE Undef, Num(0))

Message(role, content) ==
    Obj(<< <<"role", Str(<<role>>)>>, <<"content", content>> >>)

\* A zai_chat case that pushes the current user message before the history.
ChatMessagesUserFirst(args) ==
    (IF Truthy(Get(args, "system"))
     THEN <<Message("system", Get(args, "system"))>> ELSE << >>)
    \o <<Message("user", Get(args, "message"))>>
    \o (IF Truthy(Get(args, "conversationHistory"))
            /\ Get(args, "conversationHistory").t = "arr"
        THEN Get(args, "conversationHistory").v ELSE << >>)

\* The messages array of the zai_chat case.
ChatMessages(args) ==
    (IF Truthy(Get(args, "system"))
     THEN <<Message("system", Get(args, "system"))>> ELSE << >>)
    \o (IF Truthy(Get(args, "conversationHistory"))
            /\ Get(args, "conversationHistory").t = "arr"
        THEN Get(args, "conversationHistory").v ELSE << >>)
    \o <<Message("user", Get(args, "message"))>>

ChatPayload(cfg, args) ==
    Obj(<< <<"model", Str(cfg.model)>>,
           <<"messages", Arr(ChatMessages(args))>>,
           <<"max_tokens", OrElse(Get(args, "maxTokens"), cfg.maxTokens)>>,
           <<"temperature", Coalesce(Get(args, "temperature"), cfg.temperature)>> >>)

SearchPayload(args) ==
    Obj(<< <<"query", Get(args, "query")>>,
           <<"max_results", OrElse(Get(args, "maxResults"), Num(DefaultMaxResults))>> >>
        \o (IF Truthy(Get(args, "filters"))
            THEN << <<"filters", Get(args, "filters")>> >> ELSE << >>))

SummarizePayload(args) ==
    Obj(<< <<"text", Get(args, "text")>>,
           <<"length", OrElse(Get(args, "length"), Str(<<"medium">>))>>,
           <<"style", OrElse(Get(args, "style"), Str(<<"paragraph">>))>> >>)

\* The first property of `args` each case reads.
FirstRead(name) ==
    CASE name = "zai_chat" -> "system"
      [] name = "zai_search" -> "query"
      [] name = "zai_summarize" -> "text"

Endpoint(name) ==
    CASE name = "zai_chat" -> <<"/v1/chat/completions">>
      [] name = "zai_search" -> <<"/v1/search">>
      [] name = "zai_summarize" -> <<"/v1/summarize">>

Payload(cfg, name, args) ==
    CASE name = "zai_chat" -> ChatPayload(cfg, args)
      [] name = "zai_search" -> SearchPayload(args)
      [] name = "zai_summarize" -> SummarizePayload(args)

Recognized(name) == \E i \in 1..Len(ToolNames) : ToolNames[i] = name

\* A case that calls zaiApiRequest a second time with the same payload.
IssuedCallsTwice(cfg, name, args) ==
    <<FetchCall(cfg, Endpoint(name), Payload(cfg, name, args)),
      FetchCall(cfg, Endpoint(name), Payload(cfg, name, args))>>

\* The fetch calls a case makes once its payload is built: the single
\* `await zaiApiRequest(endpoint, data)` of the case.
IssuedCalls(cfg, name, args) ==
    <<FetchCall(cfg, Endpoint(name), Payload(cfg, name, args))>>

\* The switch up to the first await: the case throws, or it calls
\* zaiApiRequest(endpoint, data), which issues the fetch.
HandlerStart(cfg, name, args) ==
    IF ~Recognized(name) THEN Throw(<<"Unknown tool: ", name>>)
    ELSE IF ~CanRead(args) THEN Throw(TypeErrorMessage(args, FirstRead(name)))
    ELSE [kind |-> "fetch", calls |-> IssuedCalls(cfg, name, args)]

\* The zai_chat case reading `response.message.content`.
ChatShapeTopLevel(args, response) ==
    LET content == Read(Read(Return(response), "message"), "content")
    IN  IF content.kind = "throw" THEN content
        ELSE Return(Obj(<< <<"response", content.value>>,
                           <<"usage", Get(response, "usage")>>,
                           <<"model", Get(response, "model")>> >>))

\* The object each case passes to JSON.stringify(..., null, 2); property
\* values are evaluated in source order and the first throw wins.
ChatShape(args, response) ==
    LET content == Read(Read(Read(Read(Return(response), "choices"), "0"), "message"), "content")
    IN  IF content.kind = "throw" THEN content
        ELSE Return(Obj(<< <<"response", content.value>>,
                           <<"usage", Get(response, "usage")>>,
                           <<"model", Get(response, "model")>> >>))

SearchShape(args, response) ==
    LET results == Read(Return(response), "results")
    IN  IF results.kind = "throw" THEN results
        ELSE Return(Obj(<< <<"results", results.value>>,
                           <<"count", LengthOrZero(results.value)>>,
                           <<"query", Get(args, "query")>> >>))

SummarizeShape(args, response) ==
    LET summary == Read(Return(response), "summary")
        original == Read(Return(Get(args, "text")), "length")
    IN  IF summary.kind = "throw" THEN summary
        ELSE IF original.kind = "throw" THEN original
        ELSE Return(Obj(<< <<"summary", summary.value>>,
                           <<"original_length", original.value>>,
                           <<"summary_length", LengthOrZero(summary.value)>> >>))

Shape(name, args, response) ==
    CASE name = "zai_chat" -> ChatShape(args, response)
      [] name = "zai_search" -> SearchShape(args, response)
      [] name = "zai_summarize" -> SummarizeShape(args, response)

TextBlock(text) == [type |-> "text", text |-> text]

\* A success return that sets `isError: false`.
SuccessResultFlagged(shaped) ==
    [content |-> <<[type |-> "text", text |-> JSONStringify(shaped)]>>, isError |-> FALSE]

\* The value a case returns on success: one text block and no isError key.
SuccessResult(shaped) == [content |-> <<TextBlock(JSONStringify(shaped))>>]

\* A catch block that leaves `isError: true` out of its return.
ErrorResultUnflagged(name, message) ==
    [content |-> <<[type |-> "text", text |-> <<"Error executing ", name, ": ">> \o message]>>]

\* The value the handler's catch block returns.
ErrorResult(name, message) ==
    [content |-> <<TextBlock(<<"Error executing ", name, ": ">> \o message)>>,
     isError |-> TRUE]

\* A handler without the try / catch: a thrown Error leaves the handler.
CaughtRethrows(name, c) ==
    IF c.kind = "throw" THEN c
    ELSE Return([content |-> <<[type |-> "text", text |-> JSONStringify(c.value)]>>])

\* try { ... } catch (error) { return {...isError: true} } around a case that
\* ended with completion c (a thrown Error, or the object to stringify).
Caught(name, c) ==
    IF c.kind = "throw" THEN Return(ErrorResult(name, c.message))
    ELSE Return(SuccessResult(c.value))

\* The handler from the settled fetch to its return.
HandlerFinish(name, args, url, out) ==
    LET response == zaiApiRequest(url, out)
    IN  Caught(name, IF response.kind = "throw" THEN response
                     ELSE Shape(name, args, response.value))

\* ------------------------------------------------------------------ inputs
RECURSIVE SeqsUpTo(_, _)
SeqsUpTo(S, n) == IF n = 0 THEN {<< >>} ELSE SeqsUpTo(S, n - 1) \cup [1..n -> S]

\* An object literal of the given members, absent ones left out.
Bag(pairs) == Obj(Kept(pairs))

Texts == SeqsUpTo({"a", QUOTE, NL}, MaxStrLen)

HistEntries == {Message("user", Str(<<"q1">>)), Message("assistant", Str(<<"a1">>))}

\* A history of one earlier exchange, question then answer.
Exchange == <<Message("user", Str(<<"q1">>)), Message("assistant", Str(<<"a1">>))>>

ChatArgs ==
    { Bag(<< <<"message", m>>, <<"system", s>>, <<"conversationHistory", h>>,
             <<"temperature", t>>, <<"maxTokens", k>> >>) :
        m \in {Undef, Str(<<"hello">>)},
        s \in {Undef, Str(<< >>), Str(<<"be brief">>)},
        h \in {Undef, Str(<<"oops">>), Arr(Exchange)}
                \cup {Arr(a) : a \in SeqsUpTo(HistEntries, MaxHist)},
        t \in {Undef, Num(0), Num(5), Num(15)},
        k \in {Undef, Num(0), Num(100)} }

SearchArgs ==
    { Bag(<< <<"query", q>>, <<"maxResults", n>>, <<"limit", l>>, <<"filters", f>> >>) :
        q \in {Undef, Str(<<"x">>)},
        n \in {Undef, Num(0), Num(5)},
        l \in {Undef, Num(3)},
        f \in {Undef, Obj(<< <<"dateRange", Str(<<"last_week">>)>> >>)} }

SummarizeArgs ==
    { Bag(<< <<"text", x>>, <<"length", l>>, <<"style", y>> >>) :
        x \in {Undef, Str(<<"a", "b", "c">>), Num(42)},
        l \in {Undef, Str(<<"short">>)},
        y \in {Undef, Str(<<"bullet_points">>)} }

\* Tool names a client may send: the three of the catalog and two others.
Names == {"zai_chat", "zai_search", "zai_summarize", "zai_unknown", "ZAI_CHAT"}

\* The `arguments` a client may send with a name; the field is optional.
ArgsFor(name) ==
    {Undef} \cup
    (CASE name = "zai_chat" -> ChatArgs
       [] name = "zai_search" -> SearchArgs
       [] name = "zai_summarize" -> SummarizeArgs
       [] OTHER -> {Obj(<< >>)})

\* JSON bodies a 2xx answer may carry.
Meta == << <<"usage", Obj(<< <<"total_tokens", Num(3)>> >>)>>, <<"model", Str(<<"glm">>)>> >>

Choice(message) == Obj(<< <<"choices", Arr(<<Obj(<< <<"message", message>> >>)>>)>> >>)

Bodies ==
    {Null, Obj(<< >>),
     Obj(<< <<"choices", Arr(<< >>)>> >>),
     Obj(<< <<"choices", Arr(<<Obj(<< >>)>>)>> >>),
     Obj(<< <<"results", Arr(<< >>)>> >>),
     Obj(<< <<"results", Arr(<<Obj(<< <<"title", Str(<<"t">>)>> >>)>>)>> >>),
     Obj(<< <<"summary", Str(<<"s", QUOTE>>)>> >>)}
    \cup {Obj(Choice(m).v \o meta) :
            m \in {Obj(<< >>)} \cup {Obj(<< <<"content", Str(c)>> >>) : c \in Texts},
            meta \in {<< >>, Meta}}

\* Messages of the Error a failed fetch rejects with.
Causes == SeqsUpTo({"ECONNREFUSED", "z.ai API error"}, MaxStrLen)

\* How a fetch may settle.
Outcomes ==
    {[kind |-> "reject", message |-> m] : m \in Causes}
    \cup {[kind |-> "response", status |-> st, text |-> b] :
            st \in {404, 500}, b \in {<< >>, <<"server error">>}}
    \cup {[kind |-> "response", status |-> 200, isJson |-> TRUE, json |-> j] : j \in Bodies}
    \cup {[kind |-> "response", status |-> 200, isJson |-> FALSE]}

\* ------------------------------------------------------------------- state
VARIABLES
    ZAI_CONFIG,   \* the configuration object built when the module loads
    phase,        \* main(): "loaded", "created", "ready" or "exited"
    handlers,     \* request methods the server has a handler for
    exitCode,     \* the status passed to process.exit, or -1
    stderr,       \* lines written with console.error
    calls         \* the requests being handled, by slot

vars == <<ZAI_CONFIG, phase, handlers, exitCode, stderr, calls>>

Slots == 1..MaxInFlight
Idle == [st |-> "idle"]

Init ==
    /\ ZAI_CONFIG \in {LoadConfig(key) : key \in ApiKeys}
    /\ phase = "loaded"
    /\ handlers = {}
    /\ exitCode = -1
    /\ stderr = << >>
    /\ calls = [i \in Slots |-> Idle]

\* createMCPServer(): validateConfig(), then both setRequestHandler calls.
createMCPServer(cfg) ==
    LET valid == validateConfig(cfg)
    IN  IF valid.kind = "throw" THEN [completion |-> valid, handlers |-> {}]
        ELSE [completion |-> Return(Undef), handlers |-> {"tools/list", "tools/call"}]

\* main() up to `await server.connect(transport)`.
MainCreate ==
    /\ phase = "loaded"
    /\ LET made == createMCPServer(ZAI_CONFIG)
       IN  IF made.completion.kind = "throw"
           THEN /\ stderr' = Append(stderr, <<"Failed to start server:">> \o made.completion.message)
                /\ exitCode' = 1
                /\ phase' = "exited"
                /\ UNCHANGED handlers
           ELSE /\ handlers' = made.handlers
                /\ phase' = "created"
                /\ UNCHANGED <<stderr, exitCode>>
    /\ UNCHANGED <<ZAI_CONFIG, calls>>

\* server.connect(transport) resolves.
MainConnect ==
    /\ phase = "created"
    /\ phase' = "ready"
    /\ stderr' = Append(stderr, <<"z.ai MCP Server running on stdio">>)
    /\ UNCHANGED <<ZAI_CONFIG, handlers, exitCode, calls>>

\* server.connect(transport) rejects: main's catch block.
MainConnectFails ==
    /\ phase = "created"
    /\ phase' = "exited"
    /\ exitCode' = 1
    /\ stderr' = Append(stderr, <<"Failed to start server:", "connect failed">>)
    /\ UNCHANGED <<ZAI_CONFIG, handlers, calls>>

\* A request reaches a handler only through a connected transport.
Serving(method) == phase = "ready" /\ method \in handlers

\* The ListTools handler.
ListTools(i) ==
    /\ Serving("tools/list")
    /\ calls[i] = Idle
    /\ calls' = [calls EXCEPT ![i] =
            [st |-> "done", method |-> "tools/list", completion |-> Return(ToolCatalog)]]
    /\ UNCHANGED <<ZAI_CONFIG, phase, handlers, exitCode, stderr>>

\* A handler whose zai_summarize case fills a missing `length` from the
\* arguments of another invocation still in its slot (a summarizeData object
\* kept at module level instead of built per call).
CallToolSticky(i, name, args) ==
    /\ Serving("tools/call")
    /\ calls[i] = Idle
    /\ LET left == {j \in Slots : /\ calls[j].st # "idle"
                                  /\ calls[j].method = "tools/call"
                                  /\ calls[j].name = "zai_summarize"
                                  /\ CanRead(calls[j].args)
                                  /\ Truthy(Get(calls[j].args, "length"))}
           used == IF name = "zai_summarize" /\ CanRead(args)
                      /\ ~Truthy(Get(args, "length")) /\ left # {}
                   THEN Obj(args.v \o << <<"length",
                            Get(calls[CHOOSE j \in left : TRUE].args, "length")>> >>)
                   ELSE args
           start == HandlerStart(ZAI_CONFIG, name, used)
       IN  calls' = [calls EXCEPT ![i] =
             IF start.kind = "throw"
             THEN [st |-> "done", method |-> "tools/call", name |-> name, args |-> args,
                   fetches |-> << >>, completion |-> Caught(name, start)]
             ELSE [st |-> "pending", method |-> "tools/call", name |-> name, args |-> args,
                   fetches |-> start.calls]]
    /\ UNCHANGED <<ZAI_CONFIG, phase, handlers, exitCode, stderr>>

\* A handler that calls zaiApiRequest without `await`: it reads the fields of
\* a Promise and returns while the fetch is still in flight.
CallToolNoAwait(i, name, args) ==
    /\ Serving("tools/call")
    /\ calls[i] = Idle
    /\ LET start == HandlerStart(ZAI_CONFIG, name, args)
       IN  calls' = [calls EXCEPT ![i] =
             IF start.kind = "throw"
             THEN [st |-> "done", method |-> "tools/call", name |-> name, args |-> args,
                   fetches |-> << >>, completion |-> Caught(name, start)]
             ELSE [st |-> "done", method |-> "tools/call", name |-> name, args |-> args,
                   fetches |-> start.calls,
                   completion |-> Caught(name, Shape(name, args, Obj(<< >>)))]]
    /\ UNCHANGED <<ZAI_CONFIG, phase, handlers, exitCode, stderr>>

\* The CallTool handler, from the request to its first await or its return.
CallTool(i, name, args) ==
    /\ Serving("tools/call")
    /\ calls[i] = Idle
    /\ LET start == HandlerStart(ZAI_CONFIG, name, args)
       IN  calls' = [calls EXCEPT ![i] =
             IF start.kind = "throw"
             THEN [st |-> "done", method |-> "tools/call", name |-> name, args |-> args,
                   fetches |-> << >>, completion |-> Caught(name, start)]
             ELSE [st |-> "pending", method |-> "tools/call", name |-> name, args |-> args,
                   fetches |-> start.calls]]
    /\ UNCHANGED <<ZAI_CONFIG, phase, handlers, exitCode, stderr>>

\* The awaited fetch settles and the handler runs to its return.
FetchSettles(i, out) ==
    /\ calls[i].st = "pending"
    /\ calls' = [calls EXCEPT ![i] =
            [st |-> "done", method |-> "tools/call", name |-> calls[i].name,
             args |-> calls[i].args, fetches |-> calls[i].fetches, out |-> out,
             completion |-> HandlerFinish(calls[i].name, calls[i].args,
                                          calls[i].fetches[1].url, out)]]
    /\ UNCHANGED <<ZAI_CONFIG, phase, handlers, exitCode, stderr>>

\* The transport sends the handler's result and forgets the request.
Respond(i) ==
    /\ calls[i].st = "done"
    /\ calls' = [calls EXCEPT ![i] = Idle]
    /\ UNCHANGED <<ZAI_CONFIG, phase, handlers, exitCode, stderr>>

\* A client that waits for each answer before its next request.
Quiet == \A j \in Slots : calls[j] = Idle

Next ==
    \/ MainCreate
    \/ MainConnect
    \/ MainConnectFails
    \/ \E i \in Slots : Quiet /\ ListTools(i)
    \/ \E i \in Slots : \E name \in Names : \E args \in ArgsFor(name) :
            Quiet /\ CallTool(i, name, args)
    \/ \E i \in Slots : \E out \in Outcomes : FetchSettles(i, out)
    \/ \E i \in Slots : Respond(i)

Spec == Init /\ [][Next]_vars

\* ------------------------------------------------- concurrent invocations
\* The same server under a client that does not wait for answers: up to
\* MaxInFlight handlers run at once.  The await is taken in two steps, as the
\* event loop takes it: the fetch promise settles (FetchResolves), then the
\* handler's continuation runs (Resume).

\* Invocations and fetch outcomes of the concurrent client and its upstream.
ConcCalls ==
    { <<"zai_chat", Obj(<< <<"message", Str(<<"hello">>)>> >>)>>,
      <<"zai_search", Obj(<< <<"query", Str(<<"x">>)>> >>)>>,
      <<"zai_summarize", Obj(<< <<"text", Str(<<"a", "b", "c">>)>> >>)>>,
      <<"zai_summarize", Obj(<< <<"text", Str(<<"a", "b", "c">>)>>,
                                <<"length", Str(<<"short">>)>> >>)>>,
      <<"zai_unknown", Obj(<< >>)>> }

ConcOutcomes ==
    { [kind |-> "reject", message |-> <<"ECONNREFUSED">>],
      [kind |-> "response", status |-> 500, text |-> <<"server error">>],
      [kind |-> "response", status |-> 200, isJson |-> TRUE,
       json |-> Obj(Choice(Obj(<< <<"content", Str(<<"a">>)>> >>)).v
                    \o << <<"results", Arr(<< >>)>>, <<"summary", Str(<<"s">>)>> >>)] }

\* The promise of the awaited fetch settles with `out`; the handler's
\* continuation is queued.
FetchResolves(i, out) ==
    /\ calls[i].st = "pending"
    /\ calls' = [calls EXCEPT ![i] =
            [st |-> "resuming", method |-> "tools/call", name |-> calls[i].name,
             args |-> calls[i].args, fetches |-> calls[i].fetches, out |-> out]]
    /\ UNCHANGED <<ZAI_CONFIG, phase, handlers, exitCode, stderr>>

\* A continuation that reads the response from a variable shared by all
\* handlers: it may pick up the outcome another invocation is resuming with.
ResumeShared(i) ==
    /\ calls[i].st = "resuming"
    /\ \E j \in Slots :
        /\ calls[j].st = "resuming"
        /\ calls' = [calls EXCEPT ![i] =
              [st |-> "done", method |-> "tools/call", name |-> calls[i].name,
               args |-> calls[i].args, fetches |-> calls[i].fetches, out |-> calls[i].out,
               completion |-> HandlerFinish(calls[i].name, calls[i].args,
                                            calls[i].fetches[1].url, calls[j].out)]]
    /\ UNCHANGED <<ZAI_CONFIG, phase, handlers, exitCode, stderr>>

\* The handler's continuation runs from the settled fetch to its return.
Resume(i) ==
    /\ calls[i].st = "resuming"
    /\ calls' = [calls EXCEPT ![i] =
            [st |-> "done", method |-> "tools/call", name |-> calls[i].name,
             args |-> calls[i].args, fetches |-> calls[i].fetches, out |-> calls[i].out,
             completion |-> HandlerFinish(calls[i].name, calls[i].args,
                                          calls[i].fetches[1].url, calls[i].out)]]
    /\ UNCHANGED <<ZAI_CONFIG, phase, handlers, exitCode, stderr>>

NextConc ==
    \/ MainCreate
    \/ MainConnect
    \/ MainConnectFails
    \/ \E i \in Slots : ListTools(i)
    \/ \E i \in Slots : \E c \in ConcCalls : CallTool(i, c[1], c[2])
    \/ \E i \in Slots : \E out \in ConcOutcomes : FetchResolves(i, out)
    \/ \E i \in Slots : Resume(i)
    \/ \E i \in Slots : Respond(i)

SpecConc == Init /\ [][NextConc]_vars

\* ------------------------------------------------------------- scheduling
\* The two-step await under a client that waits for each answer, with what
\* the event loop guarantees: a continuation queued by a settled promise is
\* run, so Resume(i) is weakly fair.  Nothing obliges the upstream to answer
\* or the transport to respond.
LiveOutcomes ==
    ConcOutcomes \cup {[kind |-> "reject", message |-> <<"ETIMEDOUT">>],
                       [kind |-> "response", status |-> 404, text |-> << >>],
                       [kind |-> "response", status |-> 200, isJson |-> FALSE]}

NextLive ==
    \/ MainCreate
    \/ MainConnect
    \/ MainConnectFails
    \/ \E i \in Slots : Quiet /\ ListTools(i)
    \/ \E i \in Slots : \E c \in ConcCalls : Quiet /\ CallTool(i, c[1], c[2])
    \/ \E i \in Slots : \E out \in LiveOutcomes : FetchResolves(i, out)
    \/ \E i \in Slots : Resume(i)
    \/ \E i \in Slots : Respond(i)

SpecLive == Init /\ [][NextLive]_vars /\ \A i \in Slots : WF_vars(Resume(i))

\* ------------------------------------------ the variant src/unnamed/part_000
\* The server as src/unnamed/part_000 writes it: three request functions
\* build their payloads with an object spread and post them through
\* makeZaiRequest, and the handler returns the upstream JSON as it came.
\* ZAI_CONFIG holds its two module constants, ZAI_API_KEY and ZAI_API_BASE.
ZAI_API_BASE == <<"https://api.z.ai/v1">>
\* 0.7, in tenths
ChatTemperature == 7
ChatMaxTokens == 2000
SearchMaxResults == 10

validateEnvironment(key) ==
    IF ~Truthy(key)
    THEN Throw(<<"ZAI_API_KEY environment variable is required">>)
    ELSE Return(Undef)

\* One member of an object literal: a key written again keeps its place and
\* takes the later value.
SetMember(pairs, key, value) ==
    IF \E i \in 1..Len(pairs) : pairs[i][1] = key
    THEN [i \in 1..Len(pairs) |-> IF pairs[i][1] = key THEN <<key, value>> ELSE pairs[i]]
    ELSE Append(pairs, <<key, value>>)

\* `{ ...pairs, ...options }`: every own property of options is copied, the
\* ones that hold undefined included.
RECURSIVE Spread(_, _)
Spread(pairs, options) ==
    IF options = << >> THEN pairs
    ELSE Spread(SetMember(pairs, options[1][1], options[1][2]), Tail(options))

\* The JSON document JSON.stringify(x) writes, as its reader parses it:
\* members holding undefined are left out, undefined array items become null.
RECURSIVE JsonDocument(_)
JsonDocument(x) ==
    CASE x.t = "obj" ->
            Obj([i \in 1..Len(Kept(x.v)) |->
                    <<Kept(x.v)[i][1], JsonDocument(Kept(x.v)[i][2])>>])
      [] x.t = "arr" ->
            Arr([i \in 1..Len(x.v) |->
                    IF x.v[i].t = "undef" THEN Null ELSE JsonDocument(x.v[i])])
      [] OTHER -> x

\* makeZaiRequest(endpoint, {method: 'POST', body}) up to its `await fetch`.
makeZaiRequest(cfg, endpoint, payload) ==
    [url |-> cfg.baseUrl \o endpoint,
     method |-> "POST",
     contentType |-> <<"application/json">>,
     authorization |-> <<"Bearer ">> \o cfg.apiKey.v,
     body |-> JsonDocument(payload)]

\* makeZaiRequest once fetch has settled with `out`; nothing is caught here.
makeZaiRequestSettled(url, out) ==
    CASE out.kind = "reject" -> Throw(out.message)
      [] out.kind = "response" /\ ~Ok(out.status) ->
            Throw(<<"Z.AI API error (", ToString(out.status), "): ">> \o out.text)
      [] out.kind = "response" /\ Ok(out.status) /\ ~out.isJson ->
            Throw(<<"invalid json response body at ">> \o url
                  \o <<" reason: ", "Unexpected token">>)
      [] OTHER -> Return(out.json)

\* zaiChat(message, history = [], options = {})
zaiChat(cfg, message, history, options) ==
    makeZaiRequest(cfg, <<"/chat/completions">>,
        Obj(Spread(<< <<"messages", Arr((IF history.t = "undef" THEN << >> ELSE history.v)
                                       \o <<Message("user", message)>>)>>,
                      <<"temperature", OrElse(Get(options, "temperature"), Num(ChatTemperature))>>,
                      <<"max_tokens", OrElse(Get(options, "max_tokens"), Num(ChatMaxTokens))>> >>,
                   options.v)))

\* zaiSearch(query, options = {})
zaiSearch(cfg, query, options) ==
    makeZaiRequest(cfg, <<"/search">>,
        Obj(Spread(<< <<"query", query>>,
                      <<"max_results", OrElse(Get(options, "max_results"), Num(SearchMaxResults))>> >>,
                   options.v)))

\* zaiSummarize(text, options = {})
zaiSummarize(cfg, text, options) ==
    makeZaiRequest(cfg, <<"/summarize">>,
        Obj(Spread(<< <<"text", text>>,
                      <<"length", OrElse(Get(options, "length"), Str(<<"medium">>))>>,
                      <<"style", OrElse(Get(options, "style"), Str(<<"concise">>))>> >>,
                   options.v)))
\* The variant's switch up to the first await: the case throws, or it calls
\* its request function, which issues the fetch.
VariantStart(cfg, name, args) ==
    CASE name = "zai_chat" ->
            IF ~CanRead(args) THEN Throw(TypeErrorMessage(args, "message"))
            ELSE [kind |-> "fetch", calls |-> <<
                    zaiChat(cfg, Get(args, "message"),
                            OrElse(Get(args, "history"), Arr(<< >>)),
                            Obj(<< <<"temperature", Get(args, "temperature")>>,
                                   <<"max_tokens", Get(args, "max_tokens")>> >>)) >>]
      [] name = "zai_search" ->
            IF ~CanRead(args) THEN Throw(TypeErrorMessage(args, "query"))
            ELSE [kind |-> "fetch", calls |-> <<
                    zaiSearch(cfg, Get(args, "query"),
                              Obj(<< <<"max_results", Get(args, "max_results")>>,
                                     <<"filter", Get(args, "filter")>> >>)) >>]
      [] name = "zai_summarize" ->
            IF ~CanRead(args) THEN Throw(TypeErrorMessage(args, "text"))
            ELSE [kind |-> "fetch", calls |-> <<
                    zaiSummarize(cfg, Get(args, "text"),
                                 Obj(<< <<"length", Get(args, "length")>>,
                                        <<"style", Get(args, "style")>> >>)) >>]
      [] OTHER -> Throw(<<"Unknown tool: ", name>>)

\* The variant's try / catch around a case that ended with completion c.
VariantCaught(c) ==
    IF c.kind = "throw"
    THEN Return([content |-> <<TextBlock(<<"Error: ">> \o c.message)>>, isError |-> TRUE])
    ELSE Return([content |-> <<TextBlock(JSONStringify(c.value))>>])

\* Arguments a client may send to the variant's tools.
VariantArgs(name) ==
    {Undef} \cup
    (CASE name = "zai_chat" ->
            { Bag(<< <<"message", m>>, <<"history", h>>,
                     <<"temperature", t>>, <<"max_tokens", k>> >>) :
                m \in {Undef, Str(<<"hello">>)},
                h \in {Undef} \cup {Arr(a) : a \in SeqsUpTo(HistEntries, MaxHist)},
                t \in {Undef, Num(0), Num(5)},
                k \in {Undef, Num(100)} }
       [] name = "zai_search" ->
            { Bag(<< <<"query", q>>, <<"max_results", n>>, <<"filter", f>> >>) :
                q \in {Undef, Str(<<"x">>)},
                n \in {Undef, Num(0), Num(5)},
                f \in {Undef, Obj(<< <<"type", Str(<<"news">>)>> >>)} }
       [] name = "zai_summarize" ->
            { Bag(<< <<"text", x>>, <<"length", l>>, <<"style", y>> >>) :
                x \in {Undef, Str(<<"a", "b", "c">>)},
                l \in {Undef, Str(<<"short">>)},
                y \in {Undef, Str(<<"detailed">>)} }
       [] OTHER -> {Obj(<< >>)})

\* How the variant's fetch may settle.
VariantOutcomes ==
    ConcOutcomes \cup {[kind |-> "response", status |-> 200, isJson |-> FALSE]}

VariantInit ==
    /\ ZAI_CONFIG \in {[apiKey |-> key, baseUrl |-> ZAI_API_BASE] : key \in ApiKeys}
    /\ phase = "loaded"
    /\ handlers = {}
    /\ exitCode = -1
    /\ stderr = << >>
    /\ calls = [i \in Slots |-> Idle]

\* main() up to `await server.connect(transport)`: validateEnvironment(),
\* then createServer() with its two setRequestHandler calls.
VariantMain ==
    /\ phase = "loaded"
    /\ LET valid == validateEnvironment(ZAI_CONFIG.apiKey)
       IN  IF valid.kind = "throw"
           THEN /\ stderr' = Append(stderr, <<"Failed to start server:">> \o valid.message)
                /\ exitCode' = 1
                /\ phase' = "exited"
                /\ UNCHANGED handlers
           ELSE /\ handlers' = {"tools/list", "tools/call"}
                /\ phase' = "created"
                /\ UNCHANGED <<stderr, exitCode>>
    /\ UNCHANGED <<ZAI_CONFIG, calls>>

VariantConnect ==
    /\ phase = "created"
    /\ phase' = "ready"
    /\ stderr' = Append(stderr, <<"Z.AI MCP Server running on stdio">>)
    /\ UNCHANGED <<ZAI_CONFIG, handlers, exitCode, calls>>

VariantConnectFails ==
    /\ phase = "created"
    /\ phase' = "exited"
    /\ exitCode' = 1
    /\ stderr' = Append(stderr, <<"Failed to start server:", "connect failed">>)
    /\ UNCHANGED <<ZAI_CONFIG, handlers, calls>>

\* The variant's ListTools handler: the same three names and required fields.
VariantListTools(i) ==
    /\ Serving("tools/list")
    /\ calls[i] = Idle
    /\ calls' = [calls EXCEPT ![i] =
            [st |-> "done", method |-> "tools/list", completion |-> Return(ToolCatalog)]]
    /\ UNCHANGED <<ZAI_CONFIG, phase, handlers, exitCode, stderr>>

\* The variant's CallTool handler, from the request to its await or return.
VariantCallTool(i, name, args) ==
    /\ Serving("tools/call")
    /\ calls[i] = Idle
    /\ LET start == VariantStart(ZAI_CONFIG, name, args)
       IN  calls' = [calls EXCEPT ![i] =
             IF start.kind = "throw"
             THEN [st |-> "done", method |-> "tools/call", name |-> name, args |-> args,
                   fetches |-> << >>, completion |-> VariantCaught(start)]
             ELSE [st |-> "pending", method |-> "tools/call", name |-> name, args |-> args,
                   fetches |-> start.calls]]
    /\ UNCHANGED <<ZAI_CONFIG, phase, handlers, exitCode, stderr>>

\* The awaited fetch settles and the variant's handler runs to its return.
VariantFetchSettles(i, out) ==
    /\ calls[i].st = "pending"
    /\ calls' = [calls EXCEPT ![i] =
            [st |-> "done", method |-> "tools/call", name |-> calls[i].name,
             args |-> calls[i].args, fetches |-> calls[i].fetches, out |-> out,
             completion |-> VariantCaught(
                 makeZaiRequestSettled(calls[i].fetches[1].url, out))]]
    /\ UNCHANGED <<ZAI_CONFIG, phase, handlers, exitCode, stderr>>

VariantNext ==
    \/ VariantMain
    \/ VariantConnect
    \/ VariantConnectFails
    \/ \E i \in Slots : Quiet /\ VariantListTools(i)
    \/ \E i \in Slots : \E name \in Names : \E args \in VariantArgs(name) :
            Quiet /\ VariantCallTool(i, name, args)
    \/ \E i \in Slots : \E out \in VariantOutcomes : VariantFetchSettles(i, out)
    \/ \E i \in Slots : Respond(i)

SpecVariant == VariantInit /\ [][VariantNext]_vars

\* ------------------------------------------------------------- properties
\* Slots holding a CallTool invocation, and those whose handler has ended.
Invoked == {i \in Slots : calls[i].st # "idle" /\ calls[i].method = "tools/call"}
Ended == {i \in Invoked : calls[i].st = "done"}
\* Ended invocations whose fetch settled (the others ended before any fetch).
Settled == {i \in Ended : "out" \in DOMAIN calls[i]}

Returned(i) == calls[i].completion.kind = "return"
Result(i) == calls[i].completion.value
Text(i) == Result(i).content[1].text

OneTextBlock(r) == Len(r.content) = 1 /\ r.content[1].type = "text"
HasFlag(r) == "isError" \in DOMAIN r
IsError(r) == HasFlag(r) /\ r.isError = TRUE

Answered2xx(i) == calls[i].out.kind = "response" /\ Ok(calls[i].out.status)
AnsweredNon2xx(i) == calls[i].out.kind = "response" /\ ~Ok(calls[i].out.status)
Rejected(i) == calls[i].out.kind = "reject"

ErrorPrefix(i) == <<"Error executing ", calls[i].name, ": ">>
StartsWith(s, prefix) == Len(s) >= Len(prefix) /\ SubSeq(s, 1, Len(prefix)) = prefix
\* What follows the "Error executing <tool>: " of an error text.
ErrorMessage(i) == SubSeq(Text(i), Len(ErrorPrefix(i)) + 1, Len(Text(i)))

\* The schema's required field of a catalog tool.
RequiredField(name) ==
    LET d == CHOOSE k \in 1..Len(ToolCatalog) : ToolCatalog[k].name = name
    IN  ToolCatalog[d].required[1]

LacksRequired(name, args) == ~CanRead(args) \/ Get(args, RequiredField(name)) = Undef

\* Settled invocations of a catalog tool that carried the required field.
WellFormed ==
    {i \in Settled : Recognized(calls[i].name)
                       /\ ~LacksRequired(calls[i].name, calls[i].args)}

\* C1: every CallTool invocation that ends, whatever its name, arguments and
\* upstream outcome, ends by returning a ToolResult whose content is exactly
\* one block of type "text"; the handler never ends by throwing.
C1_OneTextBlockNeverThrows ==
    \A i \in Ended : Returned(i) /\ OneTextBlock(Result(i))

\* C1 witness: an invocation of a catalog tool sent without an arguments
\* object has ended, the TypeError of its first property read caught.
C1_Witness ==
    \E i \in Ended :
        /\ calls[i].args = Undef /\ Recognized(calls[i].name)
        /\ Returned(i) /\ IsError(Result(i))

\* C2: an invocation whose name is not in the catalog ends with isError = true
\* and the message "Unknown tool: <name>", and never issues a fetch.
C2_UnknownTool ==
    \A i \in Invoked :
        ~Recognized(calls[i].name) =>
            /\ i \in Ended
            /\ calls[i].fetches = << >>
            /\ Returned(i)
            /\ IsError(Result(i))
            /\ Text(i) = ErrorPrefix(i) \o <<"Unknown tool: ", calls[i].name>>

\* C2 witness: the invocation of "zai_unknown" has ended.
C2_Witness == \E i \in Ended : calls[i].name = "zai_unknown"

\* C3 as stated: every invocation of a recognized tool issues exactly one POST.
C3_ExactlyOnePost ==
    \A i \in Invoked : Recognized(calls[i].name) => Len(calls[i].fetches) = 1

\* C3 amended: an invocation never issues more than one POST, so a non-2xx
\* answer or a rejected fetch is not retried; an invocation of a recognized
\* tool issues exactly one when its arguments object is present and none when
\* it is absent.
C3_AtMostOnePost ==
    \A i \in Invoked :
        /\ Len(calls[i].fetches) <= 1
        /\ \A k \in 1..Len(calls[i].fetches) : calls[i].fetches[k].method = "POST"
        /\ Recognized(calls[i].name) =>
              (Len(calls[i].fetches) = 1 <=> calls[i].args # Undef)

\* C3 witness: an invocation has ended after a non-2xx answer or a rejection.
C3_Witness ==
    \E i \in Settled : (AnsweredNon2xx(i) \/ Rejected(i)) /\ Len(calls[i].fetches) = 1

\* A 2xx JSON body from which the case of `name` can build its result: the
\* chat body has a first choice with a message, the other bodies are not
\* null, and zai_summarize was given a text.
Shapable(name, args, json) ==
    /\ CanRead(json)
    /\ name = "zai_chat" =>
          /\ CanRead(Get(json, "choices"))
          /\ CanRead(Get(Get(json, "choices"), "0"))
          /\ CanRead(Get(Get(Get(json, "choices"), "0"), "message"))
    /\ name = "zai_summarize" => CanRead(Get(args, "text"))

\* C4 as stated, in its most favourable case (the invocation carries its
\* required field and the 2xx body is JSON the case can shape): the
\* ToolResult carries isError = false, present and false, with a single text
\* block.
C4_FlagPresentAndFalse ==
    \A i \in WellFormed :
        (Answered2xx(i) /\ calls[i].out.isJson
         /\ Shapable(calls[i].name, calls[i].args, calls[i].out.json)) =>
            /\ Returned(i) /\ OneTextBlock(Result(i))
            /\ HasFlag(Result(i)) /\ Result(i).isError = FALSE

\* C4 amended: after a 2xx answer the ToolResult has a single text block and
\* never carries isError = false: the flag is absent when the result is built
\* from the body (always so for a body the case can shape), and is true when
\* the result is the catch block's.
C4_FlagAbsentOnSuccess ==
    \A i \in Settled :
        (Answered2xx(i) /\ Recognized(calls[i].name)) =>
            /\ Returned(i) /\ OneTextBlock(Result(i))
            /\ HasFlag(Result(i)) => Result(i).isError = TRUE
            /\ HasFlag(Result(i)) <=> StartsWith(Text(i), ErrorPrefix(i))
            /\ (calls[i].out.isJson
                 /\ Shapable(calls[i].name, calls[i].args, calls[i].out.json))
                  => ~HasFlag(Result(i))

\* C4 witness: zai_summarize has returned a flagless result after a 2xx
\* answer whose body it could shape.
C4_Witness ==
    \E i \in Settled :
        /\ Answered2xx(i) /\ calls[i].out.isJson
        /\ Shapable(calls[i].name, calls[i].args, calls[i].out.json)
        /\ calls[i].name = "zai_summarize"
        /\ ~HasFlag(Result(i))

\* C5: after a non-2xx answer with status s and body b the ToolResult has
\* isError = true and its text is "Error executing <tool>: " followed by a
\* message that carries s and b.
C5_HttpErrorText ==
    \A i \in Settled :
        AnsweredNon2xx(i) =>
            /\ Returned(i) /\ OneTextBlock(Result(i)) /\ IsError(Result(i))
            /\ StartsWith(Text(i), ErrorPrefix(i))
            /\ Includes(Text(i), <<calls[i].name>>)
            /\ Includes(ErrorMessage(i), <<ToString(calls[i].out.status)>>)
            /\ Includes(ErrorMessage(i), calls[i].out.text)
            /\ Len(ErrorMessage(i)) > Len(calls[i].out.text)

\* C5 witness: a tool has ended after HTTP 500 with body "server error".
C5_Witness ==
    \E i \in Settled :
        /\ AnsweredNon2xx(i) /\ calls[i].out.status = 500
        /\ calls[i].out.text = <<"server error">>
        /\ IsError(Result(i))

\* The two forms an error text takes after the "Error executing <tool>: ".
ConnectForm(i) ==
    StartsWith(Text(i), ErrorPrefix(i) \o <<"Failed to connect to z.ai API: ">>)
HttpForm(i) == StartsWith(Text(i), ErrorPrefix(i) \o ApiErrorMarker)

\* C6: a rejected fetch, whatever its cause message, is reported as
\* "Failed to connect to z.ai API: <cause>" and never in the form of an
\* upstream HTTP error; a non-2xx answer is never reported as a connection
\* failure.
C6_FailureClassesDistinct ==
    \A i \in WellFormed :
        /\ Rejected(i) =>
              /\ Text(i) = ErrorPrefix(i) \o <<"Failed to connect to z.ai API: ">>
                             \o calls[i].out.message
              /\ ~HttpForm(i)
        /\ AnsweredNon2xx(i) => ~ConnectForm(i)

\* C7: an invocation of a catalog tool that lacks the tool's required field
\* is rejected without any fetch being issued.
C7_RequiredFieldEnforced ==
    \A i \in Invoked :
        (Recognized(calls[i].name) /\ LacksRequired(calls[i].name, calls[i].args)) =>
            /\ calls[i].fetches = << >>
            /\ i \in Ended /\ IsError(Result(i))

\* C8: with no API key (unset or empty) the server never becomes ready: no
\* request handler is registered, main neither reaches the connect step nor
\* serves a request, and once main has run the process has exited with
\* status 1 and a message on stderr.
C8_NoKeyNeverReady ==
    ~Truthy(ZAI_CONFIG.apiKey) =>
        /\ phase \in {"loaded", "exited"}
        /\ handlers = {}
        /\ \A i \in Slots : calls[i] = Idle
        /\ phase = "exited" =>
              /\ exitCode = 1
              /\ stderr = <<<<"Failed to start server:",
                              "ZAI_API_KEY environment variable is required">>>>
        /\ phase = "loaded" => exitCode = -1 /\ stderr = << >>

\* C8 witness: main has run with an empty ZAI_API_KEY and the process exited.
C8_Witness == ZAI_CONFIG.apiKey = Str(<< >>) /\ phase = "exited"

\* Ended zai_chat invocations whose 2xx answer carried a JSON body, and those
\* of them that were sent with a message.
ChatAnswered ==
    {i \in Settled : calls[i].name = "zai_chat" /\ Answered2xx(i) /\ calls[i].out.isJson}
ChatAnsweredWithMessage == ChatAnswered \cap WellFormed

\* The message content of the first choice of a chat body, Undef without one.
FirstContent(json) ==
    LET choices == IF CanRead(json) THEN Get(json, "choices") ELSE Undef
        choice == IF CanRead(choices) THEN Get(choices, "0") ELSE Undef
        message == IF CanRead(choice) THEN Get(choice, "message") ELSE Undef
    IN  IF CanRead(message) THEN Get(message, "content") ELSE Undef

\* Characters a JSON string literal cannot hold as they are.
NeedsEscape(c) == \E k \in 1..Len(c) : c[k] \in {QUOTE, BSLASH, NL}

\* C9 as stated: for every content string c of the first choice, the result
\* is a non-error result whose single text block contains c.
C9_TextContainsContent ==
    \A i \in ChatAnsweredWithMessage :
        FirstContent(calls[i].out.json).t = "str" =>
            /\ Returned(i) /\ OneTextBlock(Result(i)) /\ ~IsError(Result(i))
            /\ Includes(Text(i), FirstContent(calls[i].out.json).v)

\* C9 amended: for every content string c of the first choice, the result is
\* a non-error result (no isError key) whose single text block is a JSON
\* document with the member "response": <c as a JSON string literal>; the
\* text contains c itself whenever c has no character that JSON escapes
\* (quote, backslash, newline).
C9_TextContainsEncodedContent ==
    \A i \in ChatAnswered :
        FirstContent(calls[i].out.json).t = "str" =>
            LET c == FirstContent(calls[i].out.json).v
            IN  /\ Returned(i) /\ OneTextBlock(Result(i)) /\ ~HasFlag(Result(i))
                /\ StartsWith(Text(i), <<"{", NL, "  ", QUOTE, "response", QUOTE, ": ">>
                                        \o Quoted(c))
                /\ ~NeedsEscape(c) => Includes(Text(i), c)

\* C9 witness: zai_chat has returned after a body whose content holds a quote.
C9_Witness ==
    \E i \in ChatAnswered :
        /\ FirstContent(calls[i].out.json).t = "str"
        /\ NeedsEscape(FirstContent(calls[i].out.json).v)
        /\ Returned(i) /\ ~HasFlag(Result(i))

\* C10: when a 2xx body lacks choices, has an empty choices list or a first
\* choice without message content, zai_chat returns the placeholder
\* "No response from z.ai" as its text and not an error.
C10_PlaceholderOnMissingFields ==
    \A i \in ChatAnsweredWithMessage :
        (calls[i].out.json.t = "obj" /\ FirstContent(calls[i].out.json) = Undef) =>
            /\ Returned(i) /\ OneTextBlock(Result(i)) /\ ~IsError(Result(i))
            /\ Includes(Text(i), <<"No response from z.ai">>)

\* Ended zai_search invocations whose 2xx answer carried a JSON object.
SearchAnswered ==
    {i \in Settled : calls[i].name = "zai_search" /\ Answered2xx(i)
                      /\ calls[i].out.isJson /\ calls[i].out.json.t = "obj"}

NoResults(json) == Get(json, "results") \in {Undef, Null, Arr(<< >>)}

\* C11: zai_search, after a 2xx body whose results list is empty or absent,
\* returns a non-error ToolResult whose text reports "count": 0; the handler
\* does not throw.
C11_ZeroResults ==
    \A i \in SearchAnswered :
        NoResults(calls[i].out.json) =>
            /\ Returned(i) /\ OneTextBlock(Result(i)) /\ ~IsError(Result(i))
            /\ Includes(Text(i), <<QUOTE, "count", QUOTE, ": ", "0">>)

\* C11 witness: zai_search has returned after a body without a results member.
C11_Witness ==
    \E i \in SearchAnswered :
        /\ Get(calls[i].out.json, "results") = Undef
        /\ Returned(i) /\ ~IsError(Result(i))

\* What an invocation returns when it is the only one the server handles.
Alone(c) ==
    IF "out" \in DOMAIN c
    THEN HandlerFinish(c.name, c.args, c.fetches[1].url, c.out)
    ELSE Caught(c.name, HandlerStart(ZAI_CONFIG, c.name, c.args))

\* C12: invocations in flight together are independent.  Under every
\* interleaving, a step of one invocation changes no other invocation and no
\* configuration; two ended invocations with the same name, arguments and
\* upstream outcome have the same ToolResult; and each ToolResult is the one
\* the invocation gets when run alone.
C12_Independent ==
    /\ [][ /\ \A i \in Slots : calls'[i] # calls[i] =>
                 \A j \in Slots \ {i} : calls'[j] = calls[j]
           /\ (\E i \in Slots : calls'[i] # calls[i]) => ZAI_CONFIG' = ZAI_CONFIG ]_vars
    /\ [](\A i \in Ended : \A j \in Ended :
            ( /\ calls[i].name = calls[j].name
              /\ calls[i].args = calls[j].args
              /\ (i \in Settled) = (j \in Settled)
              /\ i \in Settled => calls[i].out = calls[j].out )
            => calls[i].completion = calls[j].completion)
    /\ [](\A i \in Ended : calls[i].completion = Alone(calls[i]))

\* C12 witness: an invocation has ended while another, given a different
\* upstream outcome, is resuming.
C12_Witness ==
    \E i \in Settled : \E j \in Slots \ {i} :
        /\ calls[j].st = "resuming"
        /\ calls[j].method = "tools/call"
        /\ calls[j].out # calls[i].out

\* Ended or running zai_summarize invocations.
Summaries == {i \in Invoked : calls[i].name = "zai_summarize"}

\* C13: the same zai_summarize invocation issued again, whatever was invoked
\* in between, sends the identical outbound request, and against a
\* deterministic upstream (the same request gets the same outcome) returns
\* the identical ToolResult.
C13_SummarizeIdempotent ==
    \A i \in Summaries : \A j \in Summaries :
        calls[i].args = calls[j].args =>
            /\ calls[i].fetches = calls[j].fetches
            /\ ( /\ i \in Settled /\ j \in Settled
                 /\ calls[i].out = calls[j].out )
               => calls[i].completion = calls[j].completion

\* C13 witness: the same zai_summarize invocation has ended twice, in two
\* slots, with the same upstream outcome.
C13_Witness ==
    \E i \in Summaries : \E j \in Summaries \ {i} :
        /\ calls[i].args = calls[j].args
        /\ i \in Settled /\ j \in Settled
        /\ calls[i].out = calls[j].out
        /\ calls[i].completion = calls[j].completion

\* The payload of the one request an invocation has issued.
Sent(i) == calls[i].fetches[1].data
Requested(name) == {i \in Invoked : calls[i].name = name /\ calls[i].fetches # << >>}

InBounds(field, x) ==
    CASE field = "maxResults" -> x.t = "num" /\ x.v >= 1 /\ x.v <= 50
      [] field = "maxTokens" -> x.t = "num" /\ x.v >= 1
      [] field = "temperature" -> x.t = "num" /\ x.v >= 0 /\ x.v <= 10
      [] field = "length" -> x \in {Str(<<"short">>), Str(<<"medium">>), Str(<<"long">>)}
      [] field = "style" ->
            x \in {Str(<<"bullet_points">>), Str(<<"paragraph">>), Str(<<"key_points">>)}

\* The payload member `key` is the default when args has no `field`, and the
\* supplied value when that value is within the schema's bounds.
Forwarded(i, field, key, default) ==
    LET given == Get(calls[i].args, field)
    IN  /\ given = Undef => Get(Sent(i), key) = default
        /\ (given # Undef /\ InBounds(field, given)) => Get(Sent(i), key) = given

\* C15: an optional field that is absent is sent as its default (max_results
\* 10, length medium, style paragraph, the configured max tokens and
\* temperature) and a supplied value within the schema's bounds, temperature
\* 0 included, is sent as given.
C15_DefaultsAndForwarding ==
    /\ \A i \in Requested("zai_search") :
          Forwarded(i, "maxResults", "max_results", Num(10))
    /\ \A i \in Requested("zai_summarize") :
          /\ Forwarded(i, "length", "length", Str(<<"medium">>))
          /\ Forwarded(i, "style", "style", Str(<<"paragraph">>))
    /\ \A i \in Requested("zai_chat") :
          /\ Forwarded(i, "maxTokens", "max_tokens", ZAI_CONFIG.maxTokens)
          /\ Forwarded(i, "temperature", "temperature", ZAI_CONFIG.temperature)
          /\ ZAI_CONFIG.maxTokens = Num(4000) /\ ZAI_CONFIG.temperature = Num(7)

\* C15 witness: zai_chat was invoked with temperature 0 and without maxTokens,
\* and its request carries temperature 0 and the configured max tokens.
C15_Witness ==
    \E i \in Requested("zai_chat") :
        /\ Get(calls[i].args, "temperature") = Num(0)
        /\ Get(calls[i].args, "maxTokens") = Undef
        /\ Get(Sent(i), "temperature") = Num(0)
        /\ Get(Sent(i), "max_tokens") = Num(4000)

\* C16: zai_search invoked with {query, limit: n} sends a result limit of n
\* in its outbound payload.
C16_LimitArgument ==
    \A i \in Requested("zai_search") :
        ( /\ Get(calls[i].args, "limit").t = "num"
          /\ Get(calls[i].args, "query") # Undef
          /\ Get(calls[i].args, "maxResults") = Undef ) =>
            \/ Get(Sent(i), "max_results") = Get(calls[i].args, "limit")
            \/ Get(Sent(i), "limit") = Get(calls[i].args, "limit")

\* Slots holding the answer of a ListTools request.
Listed == {i \in Slots : calls[i].st # "idle" /\ calls[i].method = "tools/list"}

\* C17: every ListTools call, whatever was handled before it, returns the
\* same three descriptors in the order zai_chat, zai_search, zai_summarize,
\* each name once, whose schemas require message, query and text.
C17_FixedCatalog ==
    \A i \in Listed :
        /\ calls[i].st = "done" /\ Returned(i)
        /\ Len(Result(i)) = 3
        /\ <<Result(i)[1].name, Result(i)[2].name, Result(i)[3].name>>
              = <<"zai_chat", "zai_search", "zai_summarize">>
        /\ <<Result(i)[1].required, Result(i)[2].required, Result(i)[3].required>>
              = << <<"message">>, <<"query">>, <<"text">> >>

\* C17 witness: a ListTools request has been answered.
C17_Witness ==
    \E i \in Listed : calls[i].st = "done" /\ Len(Result(i)) = 3

HasResult(c) == "completion" \in DOMAIN c

\* C18: an invocation has no ToolResult before its fetch has settled; while
\* the fetch is pending the invocation only waits (no timeout, no
\* cancellation); once the fetch has settled, with a response or a failure,
\* the invocation eventually returns, and its one ToolResult is never
\* replaced by another.
C18_ResultFollowsFetch ==
    /\ [](\A i \in Invoked :
            /\ calls[i].st \in {"pending", "resuming"} => ~HasResult(calls[i])
            /\ (HasResult(calls[i]) /\ calls[i].fetches # << >>) => "out" \in DOMAIN calls[i])
    /\ [][\A i \in Slots :
            /\ calls[i].st = "pending" =>
                  \/ calls'[i] = calls[i]
                  \/ /\ calls'[i].st = "resuming"
                     /\ calls'[i].fetches = calls[i].fetches
            /\ calls[i].st = "resuming" =>
                  \/ calls'[i] = calls[i]
                  \/ /\ calls'[i].st = "done"
                     /\ calls'[i].out = calls[i].out
                     /\ calls'[i].fetches = calls[i].fetches
                     /\ calls'[i].completion.kind = "return"
                     /\ OneTextBlock(calls'[i].completion.value)
            /\ calls[i].st = "done" => (calls'[i] = calls[i] \/ calls'[i] = Idle)]_vars
    /\ \A i \in Slots : (calls[i].st = "resuming") ~> (calls[i].st = "done")

\* C18 witness: an invocation has returned its result after its fetch settled
\* while another invocation is still waiting for its own fetch.
C18_Witness ==
    \E i \in Invoked :
        /\ calls[i].st = "done" /\ calls[i].fetches # << >>
        /\ calls[i].out.kind = "reject"
        /\ HasResult(calls[i])

\* The messages an invocation sent, and the parts the claim builds them from.
SentMessages(i) == Get(Sent(i), "messages").v
HistoryPart(args) ==
    IF Get(args, "conversationHistory").t = "arr"
    THEN Get(args, "conversationHistory").v ELSE << >>
UserPart(args) == <<Message("user", Get(args, "message"))>>

Body(i) == calls[i].fetches[1].body
Omits(i, option) == Get(calls[i].args, option) = Undef

\* C19: in the variant of src/unnamed/part_000 an omitted option is sent with
\* its documented default: max_results = 10 for zai_search, length = medium
\* and style = concise for zai_summarize, temperature = 0.7 and
\* max_tokens = 2000 for zai_chat.
C19_DefaultsSent ==
    /\ \A i \in Requested("zai_search") :
          Omits(i, "max_results") => Get(Body(i), "max_results") = Num(SearchMaxResults)
    /\ \A i \in Requested("zai_summarize") :
          /\ Omits(i, "length") => Get(Body(i), "length") = Str(<<"medium">>)
          /\ Omits(i, "style") => Get(Body(i), "style") = Str(<<"concise">>)
    /\ \A i \in Requested("zai_chat") :
          /\ Omits(i, "temperature") => Get(Body(i), "temperature") = Num(ChatTemperature)
          /\ Omits(i, "max_tokens") => Get(Body(i), "max_tokens") = Num(ChatMaxTokens)

====
